---- MODULE Spec2Model ----
(***************************************************************************)
(* Model of the Gamepad binding of rbxts-clack (src/src/gamepad.ts): the   *)
(* selection of the active gamepad, the re-homing of the per-gamepad       *)
(* trove, and the vibration-motor commands and pulses.                     *)
(*                                                                         *)
(* Numbers are intensities in tenths (10 stands for 1.0).  An optional     *)
(* number is a tuple: <<>> is undefined and <<n>> is the number n, so that *)
(* the strict comparison of the code (!==) is tuple inequality.  An        *)
(* optional gamepad is a slot number, 0 standing for undefined.            *)
(***************************************************************************)
EXTENDS Integers, Sequences, FiniteSets, Bags, TLC

\* ---------------------------------------------------------------- bounds
NumSlots == 2
MaxThreads == 1

\* ------------------------------------------------------------- constants
Undefined == 0
Nil == <<>>
Slots == 1..NumSlots
MotorItems == <<"Large", "Small">>
Motors == {MotorItems[i] : i \in DOMAIN MotorItems}
Intensities == {-5, 5, 15}
AxisKeys == {"Thumbstick1", "ButtonL2"}
Buttons == {"ButtonA"}
Overrides == Slots \cup {Undefined}

VARIABLES
    connectedGamepads,  \* host: UserInputService.GetConnectedGamepads()
    navGamepads,        \* host: UserInputService.GetNavigationGamepads()
    motorSupport,       \* host: the motors HapticService.IsMotorSupported reports
                        \* for this.gamepad, the only gamepad the binding asks about
    gamepadOverride,    \* constructor argument (Undefined: dynamic mode)
    gamepad,            \* this.gamepad
    state,              \* this.state, as the set of <<KeyCode, gamepad>> held
    trove,              \* this.trove, the objects it holds, in order
    gamepadTrove,       \* this.gamepadTrove, its callbacks and connections
    threads,            \* the task.delay threads held by this.gamepadTrove
    setMotorIds,        \* this.setMotorIds
    fired,              \* the signals fired by the last operation, in order
    haptic,             \* the HapticService.SetMotor calls of the last operation
    call,               \* the last operation and what it observed
    linked              \* history: the last of connected and disconnected that
                        \* was fired, "" before the first; read by no operation

\* the preferred input type (prefer.ts, and its two module-level variants)
VARIABLES
    variant,                    \* the source the tracker runs: "prefer.ts" (class
                                \* Prefer), "part_000" or "gamepad.ts" (module level)
    currentPreferredInputType,  \* currentPreferredInputType
    observers,                  \* observers, the array of callbacks
    handles,                    \* the functions observePreferredInput returned, in
                                \* order, each with the callback it closes over
    preferTrove,                \* this.trove of class Prefer, the objects it holds
    listening,                  \* determinePreferred is connected to LastInputTypeChanged
    delivered,                  \* the callbacks the last operation ran, in order
    preferCall                  \* the last operation and what it observed

gamepadVars == <<connectedGamepads, navGamepads, motorSupport, gamepadOverride, gamepad,
                 state, trove, gamepadTrove, threads, setMotorIds, fired, haptic, call,
                 linked>>

preferVars == <<variant, currentPreferredInputType, observers, handles, preferTrove,
                listening, delivered, preferCall>>

\* Clack.applyDeadzone (gamepad.ts)
VARIABLES
    inValue,      \* the value given to applyDeadzone
    inThreshold,  \* the threshold given to applyDeadzone
    remapped      \* what applyDeadzone returned, Nil before the call

\* the keyboard (keyboard.ts)
VARIABLES
    keysDown,       \* this.keysDown
    keyboardTrove,  \* this.trove of class Keyboard, the objects it holds
    keyFired,       \* the signals the last operation fired, in order
    keyboardCall,   \* the last operation and what it observed
    heldUnprocessed \* history: the keys whose last Keyboard event was an
                    \* unprocessed InputBegan; read by no operation

deadzoneVars == <<inValue, inThreshold, remapped>>

keyboardVars == <<keysDown, keyboardTrove, keyFired, keyboardCall, heldUnprocessed>>

outsideGamepad == <<preferVars, deadzoneVars, keyboardVars>>

outsidePrefer == <<gamepadVars, deadzoneVars, keyboardVars>>

vars == <<gamepadVars, preferVars, deadzoneVars, keyboardVars>>

hostVars == <<connectedGamepads, navGamepads, motorSupport>>

\* the modality before the first classification
Unset == "undefined"

\* no preferred-input tracker runs
NoPrefer ==
    /\ variant = ""
    /\ currentPreferredInputType = Unset
    /\ observers = <<>>
    /\ handles = <<>>
    /\ preferTrove = <<>>
    /\ listening = FALSE
    /\ delivered = <<>>
    /\ preferCall = [op |-> ""]

\* applyDeadzone is not being called
NoDeadzone == inValue = <<0, 1>> /\ inThreshold = <<0, 1>> /\ remapped = <<>>

\* no Keyboard object exists
NoKeyboard ==
    /\ keysDown = {}
    /\ keyboardTrove = <<>>
    /\ keyFired = <<>>
    /\ keyboardCall = [op |-> ""]
    /\ heldUnprocessed = {}

\* ------------------------------------------------------- small utilities
Some(n) == <<n>>

MapGet(map, key) == IF key \in DOMAIN map THEN Some(map[key]) ELSE Nil

MapSet(map, key, value) ==
    [k \in (DOMAIN map) \cup {key} |-> IF k = key THEN value ELSE map[k]]

\* a ?? b
Coalesce(a, b) == IF a = Nil THEN b ELSE a[1]

\* math.clamp left out
ClampNone(x, lo, hi) == x

\* math.clamp(x, lo, hi)
Clamp(x, lo, hi) == IF x < lo THEN lo ELSE IF x > hi THEN hi ELSE x

\* the forEach loops of getActiveGamepad: keep the lowest Value seen
Lowest(S) == IF S = {} THEN Undefined ELSE CHOOSE a \in S : \A b \in S : a <= b

Host == [connected |-> connectedGamepads, nav |-> navGamepads, support |-> motorSupport]

Binding == [gamepad |-> gamepad, state |-> state, gamepadTrove |-> gamepadTrove,
            threads |-> threads, setMotorIds |-> setMotorIds,
            fired |-> <<>>, haptic |-> <<>>]

\* call.prev is this.gamepad before the operation; call.alive tells whether
\* this.trove still held its objects; for a thread that ran, call.id is the id
\* it captured, call.slot the gamepad its pulse was issued under and
\* call.superseded whether its motor was commanded again since; for an input
\* event, call.slot is its UserInputType, call.key its KeyCode and
\* call.processed its processed flag; for a notification, call.pending is the
\* number of threads that were scheduled when it arrived.
NoCall == [op |-> "", slot |-> Undefined, motor |-> "", x |-> 0, prev |-> Undefined,
           ret |-> Nil, id |-> Nil, superseded |-> FALSE, alive |-> TRUE,
           key |-> "", processed |-> FALSE, pending |-> 0]

\* ------------------------------------------------------ getActiveGamepad
GetGamepadConnected(h, g) == g \in h.connected

\* getActiveGamepad preferring the navigation gamepads as soon as there is one
GetActiveGamepadAnyNav(h) ==
    LET activeGamepad == IF Cardinality(h.nav) > 0 THEN Lowest(h.nav)
                         ELSE Lowest(h.connected)
    IN  IF activeGamepad # Undefined /\ ~GetGamepadConnected(h, activeGamepad)
        THEN Undefined ELSE activeGamepad

\* getActiveGamepad without its final GetGamepadConnected check
GetActiveGamepadUnchecked(h) ==
    IF Cardinality(h.nav) > 1 THEN Lowest(h.nav) ELSE Lowest(h.connected)

GetActiveGamepad(h) ==
    LET activeGamepad == IF Cardinality(h.nav) > 1 THEN Lowest(h.nav)
                         ELSE Lowest(h.connected)
    IN  IF activeGamepad # Undefined /\ ~GetGamepadConnected(h, activeGamepad)
        THEN Undefined ELSE activeGamepad

\* ----------------------------------------------------------------- motors
IsMotorSupported(b, h, motor) ==
    IF b.gamepad = Undefined THEN FALSE ELSE motor \in h.support

\* A thread is [motor, id] as captured by its closure.  Two more fields record
\* its history and are read by no operation: the gamepad its pulse was issued
\* under, and whether its motor has been commanded again since.
Supersede(ths, motor) ==
    BagOfAll(LAMBDA t : IF t.motor = motor THEN [t EXCEPT !.superseded = TRUE] ELSE t, ths)

\* setMotor without its return of -1 when no gamepad is set
SetMotorUnguarded(b, motor, intensity) ==
    [b |-> [b EXCEPT
              !.setMotorIds = MapSet(@, motor, Coalesce(MapGet(@, motor), 0 + 1)),
              !.haptic = Append(@, <<b.gamepad, motor, Clamp(intensity, 0, 10)>>),
              !.threads = Supersede(@, motor)],
     ret |-> Nil]

\* setMotor: the binding after the call, and the value returned
SetMotor(b, motor, intensity) ==
    IF b.gamepad = Undefined THEN [b |-> b, ret |-> Some(-1)]
    ELSE [b |-> [b EXCEPT
                   !.setMotorIds = MapSet(@, motor, Coalesce(MapGet(@, motor), 0 + 1)),
                   !.haptic = Append(@, <<b.gamepad, motor, Clamp(intensity, 0, 10)>>),
                   !.threads = Supersede(@, motor)],
          ret |-> Nil]

StopMotor(b, motor) == SetMotor(b, motor, 0).b

RECURSIVE StopMotorsFrom(_, _, _)
StopMotorsFrom(b, h, i) ==
    IF i > Len(MotorItems) THEN b
    ELSE StopMotorsFrom(IF IsMotorSupported(b, h, MotorItems[i])
                        THEN StopMotor(b, MotorItems[i]) ELSE b, h, i + 1)

\* stopMotors without its isMotorSupported check
RECURSIVE StopAllFrom(_, _)
StopAllFrom(b, i) ==
    IF i > Len(MotorItems) THEN b ELSE StopAllFrom(StopMotor(b, MotorItems[i]), i + 1)

StopMotorsUnchecked(b, h) == StopAllFrom(b, 1)

StopMotors(b, h) == StopMotorsFrom(b, h, 1)

\* the thread of pulseMotor without its comparison of ids
PulseThreadAlways(b, motor, id) == StopMotor(b, motor)

\* the body of the thread scheduled by pulseMotor
PulseThread(b, motor, id) ==
    IF MapGet(b.setMotorIds, motor) # id THEN b ELSE StopMotor(b, motor)

PulseMotor(b, motor, intensity) ==
    LET r == SetMotor(b, motor, intensity)
    IN  [r.b EXCEPT !.threads = @ (+) SetToBag({[motor |-> motor, id |-> r.ret,
                                                 gamepad |-> b.gamepad,
                                                 superseded |-> FALSE]})]

\* ------------------------------------------------------------------ troves
\* Trove.clean() of this.gamepadTrove: every object is cleaned up in the order
\* it was added (the stopMotors callback is called, the connections are
\* disconnected, the threads are cancelled) and the trove is emptied.
RECURSIVE CleanObjects(_, _, _, _)
CleanObjects(b, h, objs, i) ==
    IF i > Len(objs) THEN b
    ELSE CleanObjects(IF objs[i][1] = "stopMotors" THEN StopMotors(b, h) ELSE b,
                      h, objs, i + 1)

\* Trove.clean() leaving the threads it holds scheduled
GamepadTroveCleanKeepsThreads(b, h) ==
    [CleanObjects(b, h, b.gamepadTrove, 1) EXCEPT !.gamepadTrove = <<>>]

GamepadTroveClean(b, h) ==
    [CleanObjects(b, h, b.gamepadTrove, 1) EXCEPT !.gamepadTrove = <<>>,
                                                  !.threads = EmptyBag]

GetGamepadState(g) == {<<k, g>> : k \in AxisKeys}

\* setupActiveGamepad assigning this.gamepad before it cleans this.gamepadTrove
SetupActiveGamepadAssignsFirst(b, h, g) ==
    LET lastGamepad == b.gamepad
        c == [GamepadTroveClean([b EXCEPT !.gamepad = g], h) EXCEPT !.state = {}]
    IN  IF g = lastGamepad THEN b
        ELSE IF g = Undefined
        THEN [c EXCEPT !.fired = @ \o << <<"disconnected">>, <<"gamepadChanged", Undefined>> >>]
        ELSE [c EXCEPT
                !.state = GetGamepadState(g),
                !.gamepadTrove = @ \o << <<"stopMotors", Undefined>>, <<"InputBegan", g>>,
                                         <<"InputEnded", g>> >>,
                !.fired = @ \o (IF lastGamepad = Undefined THEN << <<"connected">> >> ELSE <<>>)
                            \o << <<"gamepadChanged", g>> >>]

\* setupActiveGamepad firing gamepadChanged before connected
SetupActiveGamepadChangedFirst(b, h, g) ==
    LET lastGamepad == b.gamepad
        c == [GamepadTroveClean(b, h) EXCEPT !.state = {}, !.gamepad = g]
    IN  IF g = lastGamepad THEN b
        ELSE IF g = Undefined
        THEN [c EXCEPT !.fired = @ \o << <<"disconnected">>, <<"gamepadChanged", Undefined>> >>]
        ELSE [c EXCEPT
                !.state = GetGamepadState(g),
                !.gamepadTrove = @ \o << <<"stopMotors", Undefined>>, <<"InputBegan", g>>,
                                         <<"InputEnded", g>> >>,
                !.fired = @ \o << <<"gamepadChanged", g>> >>
                            \o (IF lastGamepad = Undefined THEN << <<"connected">> >> ELSE <<>>)]

\* setupActiveGamepad firing connected whatever the last gamepad was
SetupActiveGamepadAlwaysConnected(b, h, g) ==
    LET lastGamepad == b.gamepad
        c == [GamepadTroveClean(b, h) EXCEPT !.state = {}, !.gamepad = g]
    IN  IF g = lastGamepad THEN b
        ELSE IF g = Undefined
        THEN [c EXCEPT !.fired = @ \o << <<"disconnected">>, <<"gamepadChanged", Undefined>> >>]
        ELSE [c EXCEPT
                !.state = GetGamepadState(g),
                !.gamepadTrove = @ \o << <<"stopMotors", Undefined>>, <<"InputBegan", g>>,
                                         <<"InputEnded", g>> >>,
                !.fired = @ \o << <<"connected">> >>
                            \o << <<"gamepadChanged", g>> >>]

\* setupActiveGamepad without this.state.clear()
SetupActiveGamepadKeepsState(b, h, g) ==
    LET lastGamepad == b.gamepad
        c == [GamepadTroveClean(b, h) EXCEPT !.gamepad = g]
    IN  IF g = lastGamepad THEN b
        ELSE IF g = Undefined
        THEN [c EXCEPT !.fired = @ \o << <<"disconnected">>, <<"gamepadChanged", Undefined>> >>]
        ELSE [c EXCEPT
                !.state = GetGamepadState(g),
                !.gamepadTrove = @ \o << <<"stopMotors", Undefined>>, <<"InputBegan", g>>,
                                         <<"InputEnded", g>> >>,
                !.fired = @ \o (IF lastGamepad = Undefined THEN << <<"connected">> >> ELSE <<>>)
                            \o << <<"gamepadChanged", g>> >>]

\* setupActiveGamepad without its early return on an unchanged gamepad
SetupActiveGamepadNoReturn(b, h, g) ==
    LET lastGamepad == b.gamepad
        c == [GamepadTroveClean(b, h) EXCEPT !.state = {}, !.gamepad = g]
    IN  IF g = Undefined
        THEN [c EXCEPT !.fired = @ \o << <<"disconnected">>, <<"gamepadChanged", Undefined>> >>]
        ELSE [c EXCEPT
                !.state = GetGamepadState(g),
                !.gamepadTrove = @ \o << <<"stopMotors", Undefined>>, <<"InputBegan", g>>,
                                         <<"InputEnded", g>> >>,
                !.fired = @ \o (IF lastGamepad = Undefined THEN << <<"connected">> >> ELSE <<>>)
                            \o << <<"gamepadChanged", g>> >>]

SetupActiveGamepad(b, h, g) ==
    LET lastGamepad == b.gamepad
        c == [GamepadTroveClean(b, h) EXCEPT !.state = {}, !.gamepad = g]
    IN  IF g = lastGamepad THEN b
        ELSE IF g = Undefined
        THEN [c EXCEPT !.fired = @ \o << <<"disconnected">>, <<"gamepadChanged", Undefined>> >>]
        ELSE [c EXCEPT
                !.state = GetGamepadState(g),
                !.gamepadTrove = @ \o << <<"stopMotors", Undefined>>, <<"InputBegan", g>>,
                                         <<"InputEnded", g>> >>,
                !.fired = @ \o (IF lastGamepad = Undefined THEN << <<"connected">> >> ELSE <<>>)
                            \o << <<"gamepadChanged", g>> >>]

\* The InputBegan and InputEnded handlers connected by setupActiveGamepad, each
\* with the gamepad its closure captured: every connection still held by
\* this.gamepadTrove is called with the event.
RECURSIVE InputFrom(_, _, _, _, _, _)
InputFrom(b, signal, inputType, keyCode, processed, i) ==
    IF i > Len(b.gamepadTrove) THEN b
    ELSE InputFrom(IF b.gamepadTrove[i][1] = signal /\ inputType = b.gamepadTrove[i][2]
                   THEN [b EXCEPT !.fired = Append(@,
                            <<IF signal = "InputBegan" THEN "buttonDown" ELSE "buttonUp",
                              keyCode, processed>>)]
                   ELSE b,
                   signal, inputType, keyCode, processed, i + 1)

\* the handlers without their comparison of input.UserInputType with the gamepad
OnInputAnyDevice(b, signal, inputType, keyCode, processed) ==
    IF \E i \in DOMAIN b.gamepadTrove : b.gamepadTrove[i][1] = signal
    THEN [b EXCEPT !.fired = Append(@,
              <<IF signal = "InputBegan" THEN "buttonDown" ELSE "buttonUp", keyCode, processed>>)]
    ELSE b

OnInput(b, signal, inputType, keyCode, processed) ==
    InputFrom(b, signal, inputType, keyCode, processed, 1)

\* the handlers connected by setupGamepad
OnGamepadConnected(b, h, override, gp) ==
    IF override # Undefined
    THEN IF gp = override THEN SetupActiveGamepad(b, h, override) ELSE b
    ELSE LET active == GetActiveGamepad(h)
         IN  IF active # b.gamepad THEN SetupActiveGamepad(b, h, active) ELSE b

\* the forced GamepadDisconnected handler without its comparison of gamepads
OnGamepadDisconnectedAny(b, h, override, gp) ==
    IF override # Undefined
    THEN SetupActiveGamepad(b, h, Undefined)
    ELSE LET active == GetActiveGamepad(h)
         IN  IF active # b.gamepad THEN SetupActiveGamepad(b, h, active) ELSE b

OnGamepadDisconnected(b, h, override, gp) ==
    IF override # Undefined
    THEN IF gp = override THEN SetupActiveGamepad(b, h, Undefined) ELSE b
    ELSE LET active == GetActiveGamepad(h)
         IN  IF active # b.gamepad THEN SetupActiveGamepad(b, h, active) ELSE b

\* setupGamepad without the GetGamepadConnected check of its forced branch
SetupGamepadUnchecked(b, h, override) ==
    IF override # Undefined
    THEN SetupActiveGamepad(b, h, override)
    ELSE SetupActiveGamepad(b, h, GetActiveGamepad(h))

SetupGamepad(b, h, override) ==
    IF override # Undefined
    THEN IF GetGamepadConnected(h, override) THEN SetupActiveGamepad(b, h, override) ELSE b
    ELSE SetupActiveGamepad(b, h, GetActiveGamepad(h))

SetupMotors(b) == [b EXCEPT !.setMotorIds = [m \in Motors |-> 0]]

\* new Gamepad(gamepadOverride)
Constructed(h, override) ==
    SetupMotors(SetupGamepad([gamepad |-> Undefined, state |-> {}, gamepadTrove |-> <<>>,
                              threads |-> EmptyBag, setMotorIds |-> <<>>,
                              fired |-> <<>>, haptic |-> <<>>], h, override))

\* ----------------------------------------------------------------- actions
\* the connected and disconnected signals of a log of fired signals, in order
Links(log) == SelectSeq(log, LAMBDA e : e[1] \in {"connected", "disconnected"})

\* the last of connected and disconnected fired, once the log is added
LastLink(last, log) ==
    IF Links(log) = <<>> THEN last ELSE Links(log)[Len(Links(log))][1]

\* An action takes the binding its operation leaves from a singleton set, so
\* that the operation is evaluated once.
Assign(b) ==
    /\ gamepad' = b.gamepad
    /\ state' = b.state
    /\ gamepadTrove' = b.gamepadTrove
    /\ threads' = b.threads
    /\ setMotorIds' = b.setMotorIds
    /\ fired' = b.fired
    /\ haptic' = b.haptic
    /\ linked' = LastLink(linked, b.fired)

Connected(name) == \E i \in DOMAIN trove : trove[i] = name

\* The host's answer for a gamepad that becomes this.gamepad is any set of
\* motors; it stays what it is for as long as that gamepad is this.gamepad.
SupportOf(g) == IF g = Undefined THEN {{}} ELSE SUBSET Motors

HostSupport(g) ==
    IF g = gamepad THEN motorSupport' = motorSupport ELSE motorSupport' \in SupportOf(g)

\* A pinned binding never calls getActiveGamepad, the only reader of the
\* navigation gamepads, so the host's navigation list is left empty for it.
NavChoices(override) == IF override = Undefined THEN SUBSET Slots ELSE {{}}

Init ==
    /\ connectedGamepads \in SUBSET Slots
    /\ gamepadOverride \in Overrides
    /\ navGamepads \in NavChoices(gamepadOverride)
    /\ \E b \in {Constructed([connected |-> connectedGamepads, nav |-> navGamepads,
                                support |-> {}], gamepadOverride)} :
           /\ gamepad = b.gamepad
           /\ state = b.state
           /\ gamepadTrove = b.gamepadTrove
           /\ threads = b.threads
           /\ setMotorIds = b.setMotorIds
           /\ fired = b.fired
           /\ haptic = b.haptic
           /\ linked = LastLink("", b.fired)
    /\ motorSupport \in SupportOf(gamepad)
    /\ trove = <<"gamepadTrove", "GamepadConnected", "GamepadDisconnected">>
    /\ call = [NoCall EXCEPT !.op = "new", !.slot = gamepadOverride]
    /\ NoPrefer /\ NoDeadzone /\ NoKeyboard

\* the host connects a gamepad (or reports it again) and fires GamepadConnected
GamepadConnected(gp) ==
    /\ connectedGamepads' = connectedGamepads \cup {gp}
    /\ UNCHANGED <<navGamepads, gamepadOverride, trove>>
    /\ LET h == [Host EXCEPT !.connected = connectedGamepads']
       IN  \E after \in {IF Connected("GamepadConnected")
                          THEN OnGamepadConnected(Binding, h, gamepadOverride, gp)
                          ELSE Binding} : Assign(after)
    /\ HostSupport(gamepad')
    /\ call' = [NoCall EXCEPT !.op = "GamepadConnected", !.slot = gp, !.prev = gamepad,
                              !.alive = Connected("GamepadConnected"),
                              !.pending = BagCardinality(threads)]
    /\ UNCHANGED outsideGamepad

\* the host disconnects a gamepad (or reports it again) and fires GamepadDisconnected
GamepadDisconnected(gp) ==
    /\ connectedGamepads' = connectedGamepads \ {gp}
    /\ UNCHANGED <<navGamepads, gamepadOverride, trove>>
    /\ LET h == [Host EXCEPT !.connected = connectedGamepads']
       IN  \E after \in {IF Connected("GamepadDisconnected")
                          THEN OnGamepadDisconnected(Binding, h, gamepadOverride, gp)
                          ELSE Binding} : Assign(after)
    /\ HostSupport(gamepad')
    /\ call' = [NoCall EXCEPT !.op = "GamepadDisconnected", !.slot = gp, !.prev = gamepad,
                              !.alive = Connected("GamepadDisconnected"),
                              !.pending = BagCardinality(threads)]
    /\ UNCHANGED outsideGamepad

\* the host changes which gamepads navigate the GUI; no signal of the binding's
SetNavigationGamepad(gp, enabled) ==
    /\ gamepadOverride = Undefined
    /\ navGamepads' = IF enabled THEN navGamepads \cup {gp} ELSE navGamepads \ {gp}
    /\ navGamepads' # navGamepads
    /\ UNCHANGED <<connectedGamepads, motorSupport, gamepadOverride, trove>>
    /\ Assign(Binding)
    /\ call' = [NoCall EXCEPT !.op = "SetNavigationGamepad", !.slot = gp, !.prev = gamepad]
    /\ UNCHANGED outsideGamepad

SetMotorCall(motor, intensity) ==
    /\ UNCHANGED <<hostVars, gamepadOverride, trove>>
    /\ \E r \in {SetMotor(Binding, motor, intensity)} :
           /\ Assign(r.b)
           /\ call' = [NoCall EXCEPT !.op = "setMotor", !.motor = motor, !.x = intensity,
                                     !.prev = gamepad, !.ret = r.ret,
                                     !.alive = trove # <<>>]
    /\ UNCHANGED outsideGamepad

PulseMotorCall(motor, intensity) ==
    /\ BagCardinality(threads) < MaxThreads
    /\ UNCHANGED <<hostVars, gamepadOverride, trove>>
    /\ \E after \in {PulseMotor(Binding, motor, intensity)} : Assign(after)
    /\ call' = [NoCall EXCEPT !.op = "pulseMotor", !.motor = motor, !.x = intensity,
                              !.prev = gamepad, !.alive = trove # <<>>]
    /\ UNCHANGED outsideGamepad

StopMotorCall(motor) ==
    /\ UNCHANGED <<hostVars, gamepadOverride, trove>>
    /\ \E after \in {StopMotor(Binding, motor)} : Assign(after)
    /\ call' = [NoCall EXCEPT !.op = "stopMotor", !.motor = motor, !.prev = gamepad,
                              !.alive = trove # <<>>]
    /\ UNCHANGED outsideGamepad

StopMotorsCall ==
    /\ UNCHANGED <<hostVars, gamepadOverride, trove>>
    /\ \E after \in {StopMotors(Binding, Host)} : Assign(after)
    /\ call' = [NoCall EXCEPT !.op = "stopMotors", !.prev = gamepad, !.alive = trove # <<>>]
    /\ UNCHANGED outsideGamepad

\* a thread scheduled by pulseMotor runs once its duration has elapsed
PulseThreadRun(t) ==
    /\ BagIn(t, threads)
    /\ UNCHANGED <<hostVars, gamepadOverride, trove>>
    /\ \E after \in {PulseThread([Binding EXCEPT !.threads = @ (-) SetToBag({t})],
                                  t.motor, t.id)} : Assign(after)
    /\ call' = [NoCall EXCEPT !.op = "pulseThread", !.motor = t.motor, !.id = t.id,
                              !.slot = t.gamepad, !.superseded = t.superseded, !.prev = gamepad,
                              !.alive = trove # <<>>]
    /\ UNCHANGED outsideGamepad

\* the host fires InputBegan or InputEnded for a button of a gamepad
Input(signal, inputType, keyCode, processed) ==
    /\ UNCHANGED <<hostVars, gamepadOverride, trove>>
    /\ \E after \in {OnInput(Binding, signal, inputType, keyCode, processed)} : Assign(after)
    /\ call' = [NoCall EXCEPT !.op = signal, !.slot = inputType, !.key = keyCode,
                              !.processed = processed, !.prev = gamepad,
                              !.alive = trove # <<>>]
    /\ UNCHANGED outsideGamepad

\* destroy(): this.trove.destroy() cleans up every object of this.trove
Destroy ==
    /\ UNCHANGED <<hostVars, gamepadOverride>>
    /\ trove' = <<>>
    /\ \E after \in {IF Connected("gamepadTrove") THEN GamepadTroveClean(Binding, Host)
                      ELSE Binding} : Assign(after)
    /\ call' = [NoCall EXCEPT !.op = "destroy", !.prev = gamepad, !.alive = trove # <<>>]
    /\ UNCHANGED outsideGamepad

Next ==
    \/ \E gp \in Slots : GamepadConnected(gp)
    \/ \E gp \in Slots : GamepadDisconnected(gp)
    \/ \E gp \in Slots, enabled \in BOOLEAN : SetNavigationGamepad(gp, enabled)
    \/ \E motor \in Motors, intensity \in Intensities : SetMotorCall(motor, intensity)
    \/ \E motor \in Motors, intensity \in Intensities : PulseMotorCall(motor, intensity)
    \/ \E motor \in Motors : StopMotorCall(motor)
    \/ StopMotorsCall
    \/ \E t \in BagToSet(threads) : PulseThreadRun(t)
    \/ \E signal \in {"InputBegan", "InputEnded"}, inputType \in Slots, keyCode \in Buttons,
          processed \in BOOLEAN : Input(signal, inputType, keyCode, processed)
    \/ Destroy

Spec == Init /\ [][Next]_vars

\* ------------------------------------------------- preferred input type
MaxObservers == 3   \* the observePreferredInput calls a behaviour makes

Variants == {"prefer.ts", "part_000", "gamepad.ts"}
InputTypes == {"MouseKeyboard", "Touch", "Gamepad"}
\* The callback functions of the client, one of each behaviour: the first
\* calls, when run, the unsubscribe function its latest completed
\* observePreferredInput call returned; the second throws when run; the third
\* only records what it is given.
Callbacks == {"unsubscribes", "throws", "records"}
Unsubscribing == {"unsubscribes"}
Throwing == {"throws"}

\* Enum.UserInputType items, by name
UserInputTypes == {"Touch", "Keyboard", "MouseButton1", "MouseMovement", "MouseWheel",
                   "Gamepad1", "Gamepad8", "None", "Focus"}

\* inputType.Name, as its characters
Name(inputType) ==
    CASE inputType = "Touch" -> <<"T", "o", "u", "c", "h">>
      [] inputType = "Keyboard" -> <<"K", "e", "y", "b", "o", "a", "r", "d">>
      [] inputType = "MouseButton1" -> <<"M", "o", "u", "s", "e", "B", "u", "t", "t", "o", "n", "1">>
      [] inputType = "MouseMovement" -> <<"M", "o", "u", "s", "e", "M", "o", "v", "e", "m", "e", "n", "t">>
      [] inputType = "MouseWheel" -> <<"M", "o", "u", "s", "e", "W", "h", "e", "e", "l">>
      [] inputType = "Gamepad1" -> <<"G", "a", "m", "e", "p", "a", "d", "1">>
      [] inputType = "Gamepad8" -> <<"G", "a", "m", "e", "p", "a", "d", "8">>
      [] inputType = "None" -> <<"N", "o", "n", "e">>
      [] inputType = "Focus" -> <<"F", "o", "c", "u", "s">>

\* the literals "Mouse" and "Gamepad" of determinePreferred
MouseText == <<"M", "o", "u", "s", "e">>
GamepadText == <<"G", "a", "m", "e", "p", "a", "d">>

\* string.sub(s, i, j) for i, j >= 0: characters i..j counted from 1, the
\* range cut to the string
Sub(s, i, j) == SubSeq(s, IF i < 1 THEN 1 ELSE i, IF j > Len(s) THEN Len(s) ELSE j)

\* what GuiService and UserInputService report to determineInitialPreferred
Flags == [IsTenFootInterface : BOOLEAN, KeyboardEnabled : BOOLEAN, MouseEnabled : BOOLEAN,
          TouchEnabled : BOOLEAN, GamepadEnabled : BOOLEAN]

\* The reports a step draws from. determineInitialPreferred is the only reader
\* of the host's flags and is reached only while nothing is set, and
\* gamepad.ts has no such function, so a step of a tracker that has a
\* preferred type, or that runs gamepad.ts, takes a single report.
HostFlags ==
    IF currentPreferredInputType = Unset /\ variant # "gamepad.ts" THEN Flags
    ELSE {[IsTenFootInterface |-> FALSE, KeyboardEnabled |-> FALSE, MouseEnabled |-> FALSE,
           TouchEnabled |-> TRUE, GamepadEnabled |-> FALSE]}

\* the tracker as one value; delivered and consulted start empty for each
\* operation, and error tells whether an error is propagating up the call stack
Tracker == [current |-> currentPreferredInputType, observers |-> observers,
            handles |-> handles, delivered |-> <<>>, consulted |-> FALSE,
            error |-> FALSE]

NoPreferCall == [op |-> "", inputType |-> "None", flags |-> <<>>, consulted |-> FALSE,
                 listening |-> TRUE, observer |-> "", handle |-> 0, ret |-> Unset,
                 error |-> FALSE]

\* array.indexOf(x), counted from 1; 0 when x is not in the array
IndexOf(array, x) ==
    IF \E i \in DOMAIN array : array[i] = x
    THEN CHOOSE i \in DOMAIN array : array[i] = x /\ \A j \in 1..(i - 1) : array[j] # x
    ELSE 0

\* array.unorderedRemove(index): the last element takes the place of the removed one
UnorderedRemove(array, index) ==
    SubSeq([array EXCEPT ![index] = array[Len(array)]], 1, Len(array) - 1)

\* the function the i-th observePreferredInput call returned
Unsubscribe(p, i) ==
    LET index == IndexOf(p.observers, p.handles[i].observer)
        q == [p EXCEPT !.handles[i].invoked = TRUE]
    IN  IF index # 0 THEN [q EXCEPT !.observers = UnorderedRemove(@, index)] ELSE q

\* the latest handle a callback holds, 0 when it holds none
HandleOf(p, observer) ==
    IF \E i \in DOMAIN p.handles : p.handles[i].observer = observer
    THEN CHOOSE i \in DOMAIN p.handles :
            /\ p.handles[i].observer = observer
            /\ \A j \in DOMAIN p.handles : p.handles[j].observer = observer => j <= i
    ELSE 0

\* observer(inputType) called directly: what the callback throws reaches the caller
SpawnPropagates(p, observer, inputType) ==
    LET q == [p EXCEPT !.delivered = Append(@, <<observer, inputType>>)]
    IN  IF observer \in Throwing THEN [q EXCEPT !.error = TRUE]
        ELSE IF observer \in Unsubscribing /\ HandleOf(q, observer) # 0
        THEN Unsubscribe(q, HandleOf(q, observer))
        ELSE q

\* task.spawn(observer, inputType): the callback runs at once in a thread of
\* its own, where what it throws ends that thread only
Spawn(p, observer, inputType) ==
    LET q == [p EXCEPT !.delivered = Append(@, <<observer, inputType>>)]
    IN  IF observer \in Unsubscribing /\ HandleOf(q, observer) # 0
        THEN Unsubscribe(q, HandleOf(q, observer))
        ELSE q

\* observers.forEach((observer) => task.spawn(observer, preferred)), over the
\* array as it is when each index is reached
RECURSIVE ForEachObserver(_, _, _)
ForEachObserver(p, preferred, i) ==
    IF i > Len(p.observers) \/ p.error THEN p
    ELSE ForEachObserver(Spawn(p, p.observers[i], preferred), preferred, i + 1)

\* setPreferred that notifies even when the preferred type is the current one
SetPreferredAlways(p, preferred) ==
    ForEachObserver([p EXCEPT !.current = preferred], preferred, 1)

SetPreferred(p, preferred) ==
    IF preferred = p.current THEN p
    ELSE ForEachObserver([p EXCEPT !.current = preferred], preferred, 1)

\* determineInitialPreferred asking for touch before keyboard and mouse
DetermineInitialPreferredTouchFirst(p, f) ==
    SetPreferred([p EXCEPT !.consulted = TRUE],
                 IF f.IsTenFootInterface THEN "Gamepad"
                 ELSE IF f.TouchEnabled THEN "Touch"
                 ELSE IF f.KeyboardEnabled /\ f.MouseEnabled THEN "MouseKeyboard"
                 ELSE IF f.GamepadEnabled THEN "Gamepad"
                 ELSE "MouseKeyboard")

DetermineInitialPreferred(p, f) ==
    SetPreferred([p EXCEPT !.consulted = TRUE],
                 IF f.IsTenFootInterface THEN "Gamepad"
                 ELSE IF f.KeyboardEnabled /\ f.MouseEnabled THEN "MouseKeyboard"
                 ELSE IF f.TouchEnabled THEN "Touch"
                 ELSE IF f.GamepadEnabled THEN "Gamepad"
                 ELSE "MouseKeyboard")

\* determinePreferred falling back to the enabled devices whatever is current
DeterminePreferredAlwaysInitial(p, v, inputType, f) ==
    IF inputType = "Touch" THEN SetPreferred(p, "Touch")
    ELSE IF inputType = "Keyboard" \/ Sub(Name(inputType), 1, 5) = MouseText
    THEN SetPreferred(p, "MouseKeyboard")
    ELSE IF Sub(Name(inputType), 1, 7) = GamepadText THEN SetPreferred(p, "Gamepad")
    ELSE DetermineInitialPreferred(p, f)

\* determinePreferred of the variant v: gamepad.ts takes sub(0, 4) and
\* sub(0, 6) and has no fallback; prefer.ts and part_000 take sub(1, 5) and
\* sub(1, 7) and fall back to determineInitialPreferred while nothing is set
DeterminePreferred(p, v, inputType, f) ==
    LET first == IF v = "gamepad.ts" THEN 0 ELSE 1
        mouse == IF v = "gamepad.ts" THEN 4 ELSE 5
        pad == IF v = "gamepad.ts" THEN 6 ELSE 7
    IN  IF inputType = "Touch" THEN SetPreferred(p, "Touch")
        ELSE IF inputType = "Keyboard" \/ Sub(Name(inputType), first, mouse) = MouseText
        THEN SetPreferred(p, "MouseKeyboard")
        ELSE IF Sub(Name(inputType), first, pad) = GamepadText THEN SetPreferred(p, "Gamepad")
        ELSE IF v # "gamepad.ts" /\ p.current = Unset THEN DetermineInitialPreferred(p, f)
        ELSE p

\* observePreferredInput(observer): push, run the callback, return the handle
ObservePreferredInput(p, observer) ==
    LET pushed == [p EXCEPT !.observers = Append(@, observer)]
        spawned == Spawn(pushed, observer, pushed.current)
    IN  IF spawned.error THEN spawned
        ELSE [spawned EXCEPT !.handles = Append(@, [observer |-> observer, invoked |-> FALSE])]

\* Trove.destroy() that leaves the connections of the trove connected
TroveKeepsConnections(connected, objects) == connected

\* Trove.destroy(): the connections the trove holds are disconnected
TroveDisconnects(connected, objects) ==
    connected /\ ~(\E i \in DOMAIN objects : objects[i] = "LastInputTypeChanged")

\* -------------------------------------------- the tracker's operations
PreferAssign(p) ==
    /\ currentPreferredInputType' = p.current
    /\ observers' = p.observers
    /\ handles' = p.handles
    /\ delivered' = p.delivered

\* no Gamepad object exists where the tracker is studied
NoGamepad ==
    /\ connectedGamepads = {} /\ navGamepads = {} /\ motorSupport = {}
    /\ gamepadOverride = Undefined /\ gamepad = Undefined
    /\ state = {} /\ trove = <<>> /\ gamepadTrove = <<>> /\ threads = EmptyBag
    /\ setMotorIds = [m \in Motors |-> 0]
    /\ fired = <<>> /\ haptic = <<>> /\ call = NoCall /\ linked = ""

\* new Prefer(), or the load of a module-level variant: the startup
\* classification of GetLastInputType(), then the connection
PreferInit ==
    /\ NoGamepad /\ NoDeadzone /\ NoKeyboard
    /\ variant \in Variants
    /\ \E inputType \in UserInputTypes, f \in Flags :
         \E p \in {DeterminePreferred([current |-> Unset, observers |-> <<>>, handles |-> <<>>,
                                       delivered |-> <<>>, consulted |-> FALSE,
                                       error |-> FALSE],
                                      variant, inputType, f)} :
            /\ currentPreferredInputType = p.current
            /\ observers = p.observers
            /\ handles = p.handles
            /\ delivered = p.delivered
            /\ preferCall = [NoPreferCall EXCEPT !.op = "new", !.inputType = inputType,
                                                 !.flags = f, !.consulted = p.consulted,
                                                 !.error = p.error]
    /\ preferTrove = IF variant = "prefer.ts" THEN <<"LastInputTypeChanged">> ELSE <<>>
    /\ listening = TRUE

\* the host fires LastInputTypeChanged; preferCall.flags keeps what the host
\* reported if determineInitialPreferred asked
LastInputTypeChanged(inputType) ==
    /\ UNCHANGED <<outsidePrefer, variant, preferTrove, listening>>
    /\ \E f \in HostFlags :
       \E after \in {IF listening THEN DeterminePreferred(Tracker, variant, inputType, f)
                     ELSE Tracker} :
          /\ PreferAssign(after)
          /\ preferCall' = [NoPreferCall EXCEPT !.op = "LastInputTypeChanged",
                                                !.inputType = inputType,
                                                !.flags = IF after.consulted THEN f ELSE <<>>,
                                                !.consulted = after.consulted,
                                                !.error = after.error,
                                                !.listening = listening]

ObserveCall(observer) ==
    /\ Len(handles) < MaxObservers
    /\ UNCHANGED <<outsidePrefer, variant, preferTrove, listening>>
    /\ \E after \in {ObservePreferredInput(Tracker, observer)} :
          /\ PreferAssign(after)
          /\ preferCall' = [NoPreferCall EXCEPT !.op = "observePreferredInput",
                                                !.observer = observer,
                                                !.handle = Len(after.handles),
                                                !.error = after.error,
                                                !.listening = listening]

\* the client calls the function the i-th observePreferredInput call returned
UnsubscribeCall(i) ==
    /\ UNCHANGED <<outsidePrefer, variant, preferTrove, listening>>
    /\ \E after \in {Unsubscribe(Tracker, i)} : PreferAssign(after)
    /\ preferCall' = [NoPreferCall EXCEPT !.op = "unsubscribe", !.handle = i,
                                          !.observer = handles[i].observer,
                                          !.listening = listening]

GetPreferredInput ==
    /\ UNCHANGED <<outsidePrefer, variant, preferTrove, listening>>
    /\ PreferAssign(Tracker)
    /\ preferCall' = [NoPreferCall EXCEPT !.op = "getPreferredInput",
                                          !.ret = currentPreferredInputType,
                                          !.listening = listening]

\* Prefer.destroy(): this.trove.destroy()
PreferDestroy ==
    /\ variant = "prefer.ts"
    /\ UNCHANGED <<outsidePrefer, variant>>
    /\ listening' = TroveDisconnects(listening, preferTrove)
    /\ preferTrove' = <<>>
    /\ PreferAssign(Tracker)
    /\ preferCall' = [NoPreferCall EXCEPT !.op = "destroy", !.listening = listening]

PreferNext ==
    \/ \E inputType \in UserInputTypes : LastInputTypeChanged(inputType)
    \/ \E observer \in Callbacks : ObserveCall(observer)
    \/ \E i \in DOMAIN handles : UnsubscribeCall(i)
    \/ GetPreferredInput
    \/ PreferDestroy

SpecPrefer == PreferInit /\ [][PreferNext]_vars

\* ------------------------------------------------------------ applyDeadzone
GridDen == 6   \* the values and thresholds tried are the multiples of 1/GridDen

\* A number is a fraction <<numerator, denominator>>, denominator > 0.
Zero == <<0, 1>>
One == <<1, 1>>
RLess(a, b) == a[1] * b[2] < b[1] * a[2]
REq(a, b) == a[1] * b[2] = b[1] * a[2]
RSub(a, b) == <<a[1] * b[2] - b[1] * a[2], a[2] * b[2]>>
RMul(a, b) == <<a[1] * b[1], a[2] * b[2]>>
\* a / b for b # 0
RDiv(a, b) == IF b[1] > 0 THEN <<a[1] * b[2], a[2] * b[1]>>
              ELSE <<-(a[1] * b[2]), -(a[2] * b[1])>>
\* math.abs, math.sign
Abs(a) == IF a[1] < 0 THEN <<-a[1], a[2]>> ELSE a
Sign(a) == IF a[1] < 0 THEN <<-1, 1>> ELSE IF a[1] > 0 THEN One ELSE Zero

\* the raw values in [-1, 1] and the thresholds in [0, 1) of the grid
GridValues == {<<n, GridDen>> : n \in (-GridDen)..GridDen}
GridThresholds == {<<n, GridDen>> : n \in 0..(GridDen - 1)}

\* applyDeadzone without the division by 1 - threshold
ApplyDeadzoneUnscaled(v, t) ==
    LET absValue == Abs(v)
    IN  IF RLess(absValue, t) THEN Zero
        ELSE RMul(RSub(absValue, t), Sign(v))

ApplyDeadzone(v, t) ==
    LET absValue == Abs(v)
    IN  IF RLess(absValue, t) THEN Zero
        ELSE RMul(RDiv(RSub(absValue, t), RSub(One, t)), Sign(v))

DeadzoneInit ==
    /\ NoGamepad /\ NoPrefer /\ NoKeyboard
    /\ inValue \in GridValues
    /\ inThreshold \in GridThresholds
    /\ remapped = Nil

\* Clack.applyDeadzone(v, t) is called
ApplyDeadzoneCall(v, t) ==
    /\ inValue' = v
    /\ inThreshold' = t
    /\ remapped' = Some(ApplyDeadzone(v, t))
    /\ UNCHANGED <<gamepadVars, preferVars, keyboardVars>>

DeadzoneNext == \E v \in GridValues, t \in GridThresholds : ApplyDeadzoneCall(v, t)

SpecDeadzone == DeadzoneInit /\ [][DeadzoneNext]_vars

\* ------------------------------------------------------ the state queries
\* this.defaultDeadzone = 0.05
defaultDeadzone == <<1, 20>>

GetGamepadType(b) == b.gamepad

IsConnected(b, h) ==
    IF b.gamepad = Undefined THEN FALSE ELSE GetGamepadConnected(h, b.gamepad)

\* isButtonDown without its return of false when no gamepad is set
IsButtonDownUnguarded(b, down, button) == button \in down

\* isButtonDown, down being the buttons the host reports down for the gamepad
IsButtonDown(b, down, button) ==
    IF b.gamepad = Undefined THEN FALSE ELSE button \in down

\* isVibrationSupported, supported being the host's answer for the gamepad
IsVibrationSupported(b, supported) ==
    IF b.gamepad = Undefined THEN FALSE ELSE supported

Held(b, keyCode) == \E sample \in b.state : sample[1] = keyCode

\* getThumbstick, x and y being the Position the sample held for the
\* thumbstick reports; deadzoneThreshold is Nil when the argument is left out
GetThumbstick(b, thumbstick, deadzoneThreshold, x, y) ==
    LET deadzone == Coalesce(deadzoneThreshold, defaultDeadzone)
    IN  <<ApplyDeadzone(IF Held(b, thumbstick) THEN x ELSE Zero, deadzone),
          ApplyDeadzone(IF Held(b, thumbstick) THEN y ELSE Zero, deadzone)>>

\* getTrigger, z being the Position.Z the sample held for the trigger reports
GetTrigger(b, trigger, deadzoneThreshold, z) ==
    ApplyDeadzone(IF Held(b, trigger) THEN z ELSE Zero,
                  Coalesce(deadzoneThreshold, defaultDeadzone))

\* ---------------------------------------------------------------- keyboard
\* the keys of the keyboard the model presses
Keys == {"W", "Up"}

\* The input events of the host: a Keyboard event carries the KeyCode of its
\* key, an event of another device (here the left mouse button) the KeyCode
\* Unknown.
InputEvents == {<<"Keyboard", k>> : k \in Keys} \cup {<<"MouseButton1", "Unknown">>}

\* keyboardCall.op is the last operation, keyboardCall.inputType, .key and
\* .processed the event or argument it was given, keyboardCall.ret what a query
\* returned, keyboardCall.alive whether destroy() had not been called before.
NoKeyboardCall == [op |-> "", inputType |-> "", key |-> "", processed |-> FALSE,
                   ret |-> FALSE, alive |-> TRUE]

\* the Keyboard object as a record
KeyboardObject == [keysDown |-> keysDown, trove |-> keyboardTrove, fired |-> <<>>]

\* the trove holds a connection to the signal of UserInputService
Listens(k, signal) == \E i \in DOMAIN k.trove : k.trove[i] = signal

\* the InputBegan handler adding every press, processed or not
OnInputBeganAnyPress(k, inputType, keyCode, processed) ==
    IF Listens(k, "InputBegan") /\ inputType = "Keyboard"
    THEN [k EXCEPT !.keysDown = @ \cup {keyCode},
                   !.fired = Append(@, <<"keyDown", keyCode, processed>>)]
    ELSE k

\* the handler the constructor connects to UserInputService.InputBegan
OnInputBegan(k, inputType, keyCode, processed) ==
    IF Listens(k, "InputBegan") /\ inputType = "Keyboard"
    THEN [k EXCEPT !.keysDown = IF ~processed THEN @ \cup {keyCode} ELSE @,
                   !.fired = Append(@, <<"keyDown", keyCode, processed>>)]
    ELSE k

\* the handler the constructor connects to UserInputService.InputEnded
OnInputEnded(k, inputType, keyCode, processed) ==
    IF Listens(k, "InputEnded") /\ inputType = "Keyboard"
    THEN [k EXCEPT !.keysDown = @ \ {keyCode},
                   !.fired = Append(@, <<"keyUp", keyCode, processed>>)]
    ELSE k

\* isKeyDown(keyCode)
IsKeyDown(k, keyCode) == keyCode \in k.keysDown

\* isKeyComboDown(keyCodePrimary, keyCodeSecondary)
IsKeyComboDown(k, keyCodePrimary, keyCodeSecondary) ==
    IsKeyDown(k, keyCodePrimary) /\ IsKeyDown(k, keyCodeSecondary)

\* isEitherKeyDown(keyCode1, keyCode2)
IsEitherKeyDown(k, keyCode1, keyCode2) ==
    IsKeyDown(k, keyCode1) \/ IsKeyDown(k, keyCode2)

\* this.trove.destroy(): the signals are destroyed, the connections cut
KeyboardTroveDestroy(k) == [k EXCEPT !.trove = <<>>]

KeyboardAssign(k) ==
    /\ keysDown' = k.keysDown
    /\ keyboardTrove' = k.trove
    /\ keyFired' = k.fired

\* the state after new Keyboard()
KeyboardInit ==
    /\ keysDown = {}
    /\ keyboardTrove = <<"keyDown", "keyUp", "InputBegan", "InputEnded">>
    /\ keyFired = <<>>
    /\ keyboardCall = [NoKeyboardCall EXCEPT !.op = "new"]
    /\ heldUnprocessed = {}
    /\ NoGamepad /\ NoPrefer /\ NoDeadzone

outsideKeyboard == <<gamepadVars, preferVars, deadzoneVars>>

\* the host fires InputBegan
KeyboardInputBegan(inputType, keyCode, processed) ==
    /\ \E after \in {OnInputBegan(KeyboardObject, inputType, keyCode, processed)} :
          KeyboardAssign(after)
    /\ keyboardCall' = [NoKeyboardCall EXCEPT !.op = "InputBegan", !.inputType = inputType,
                                              !.key = keyCode, !.processed = processed,
                                              !.alive = keyboardTrove # <<>>]
    /\ heldUnprocessed' = IF inputType = "Keyboard" /\ ~processed
                          THEN heldUnprocessed \cup {keyCode} ELSE heldUnprocessed
    /\ UNCHANGED outsideKeyboard

\* the host fires InputEnded
KeyboardInputEnded(inputType, keyCode, processed) ==
    /\ \E after \in {OnInputEnded(KeyboardObject, inputType, keyCode, processed)} :
          KeyboardAssign(after)
    /\ keyboardCall' = [NoKeyboardCall EXCEPT !.op = "InputEnded", !.inputType = inputType,
                                              !.key = keyCode, !.processed = processed,
                                              !.alive = keyboardTrove # <<>>]
    /\ heldUnprocessed' = IF inputType = "Keyboard"
                          THEN heldUnprocessed \ {keyCode} ELSE heldUnprocessed
    /\ UNCHANGED outsideKeyboard

\* the client calls isKeyDown(keyCode)
IsKeyDownCall(keyCode) ==
    /\ keyboardCall' = [NoKeyboardCall EXCEPT !.op = "isKeyDown", !.key = keyCode,
                                              !.ret = IsKeyDown(KeyboardObject, keyCode),
                                              !.alive = keyboardTrove # <<>>]
    /\ keyFired' = <<>>
    /\ UNCHANGED <<keysDown, keyboardTrove, heldUnprocessed, outsideKeyboard>>

\* the client calls isKeyComboDown or isEitherKeyDown
IsKeyPairDownCall(op, keyCode1, keyCode2) ==
    /\ keyboardCall' = [NoKeyboardCall EXCEPT
                           !.op = op, !.key = keyCode1, !.inputType = keyCode2,
                           !.ret = IF op = "isKeyComboDown"
                                   THEN IsKeyComboDown(KeyboardObject, keyCode1, keyCode2)
                                   ELSE IsEitherKeyDown(KeyboardObject, keyCode1, keyCode2),
                           !.alive = keyboardTrove # <<>>]
    /\ keyFired' = <<>>
    /\ UNCHANGED <<keysDown, keyboardTrove, heldUnprocessed, outsideKeyboard>>

\* destroy()
KeyboardDestroy ==
    /\ \E after \in {KeyboardTroveDestroy(KeyboardObject)} : KeyboardAssign(after)
    /\ keyboardCall' = [NoKeyboardCall EXCEPT !.op = "destroy", !.alive = keyboardTrove # <<>>]
    /\ UNCHANGED <<heldUnprocessed, outsideKeyboard>>

KeyboardNext ==
    \/ \E e \in InputEvents, processed \in BOOLEAN : KeyboardInputBegan(e[1], e[2], processed)
    \/ \E e \in InputEvents, processed \in BOOLEAN : KeyboardInputEnded(e[1], e[2], processed)
    \/ \E keyCode \in Keys : IsKeyDownCall(keyCode)
    \/ \E op \in {"isKeyComboDown", "isEitherKeyDown"}, keyCode1, keyCode2 \in Keys :
          IsKeyPairDownCall(op, keyCode1, keyCode2)
    \/ KeyboardDestroy

SpecKeyboard == KeyboardInit /\ [][KeyboardNext]_vars

\* ------------------------------------------------------------ properties
Notifications == {"GamepadConnected", "GamepadDisconnected"}

\* the operations after which a dynamic binding has re-evaluated its gamepad
ReEvaluated == call.op \in {"new"} \cup Notifications /\ call.alive

\* the number of commands of an operation addressed to a motor
RECURSIVE CountFrom(_, _, _)
CountFrom(cmds, motor, i) ==
    IF i > Len(cmds) THEN 0
    ELSE (IF cmds[i][2] = motor THEN 1 ELSE 0) + CountFrom(cmds, motor, i + 1)

Commands(cmds, motor) == CountFrom(cmds, motor, 1)

Fires(e) == \E i \in DOMAIN fired : fired[i] = e

\* C1: when the thread of a pulse issued under an active gamepad runs after
\* its motor was commanded again, it issues no command for that motor.
C1_StalePulseIssuesNothing ==
    (call.op = "pulseThread" /\ call.slot # Undefined /\ call.superseded)
        => Commands(haptic, call.motor) = 0

C1_Witness ==
    call.op = "pulseThread" /\ call.slot # Undefined /\ call.superseded /\ gamepad # Undefined

\* C2: when the thread of a pulse issued under an active gamepad runs, no
\* other command for its motor having been issued, the gamepad being the same
\* and the binding not destroyed, it commands intensity 0 for the motor.
C2_PulseTurnsMotorOff ==
    (/\ call.op = "pulseThread" /\ call.slot # Undefined /\ ~call.superseded
     /\ call.alive /\ gamepad = call.slot)
        => haptic = << <<gamepad, call.motor, 0>> >>

\* C3: no motor id ever decreases, and each setMotor call issued under an
\* active gamepad (one per command sent) increases the motor's id by one.
C3_EpochCountsCommands ==
    [][\A m \in Motors : setMotorIds'[m] = setMotorIds[m] + Commands(haptic', m)]_vars

\* C4 as stated: with two connected gamepads A < B of which only B navigates,
\* a dynamic binding resolves to B; if both navigate, it resolves to A.
C4_Original ==
    (gamepadOverride = Undefined /\ ReEvaluated) =>
        \A A, B \in Slots :
            (A < B /\ connectedGamepads = {A, B}) =>
                /\ navGamepads = {B} => gamepad = B
                /\ navGamepads = {A, B} => gamepad = A

\* C4 as amended: with two connected gamepads A < B, a dynamic binding
\* resolves to A both when only B navigates and when both navigate.
C4_LowestConnectedWins ==
    (gamepadOverride = Undefined /\ ReEvaluated) =>
        \A A, B \in Slots :
            (A < B /\ connectedGamepads = {A, B}) =>
                /\ navGamepads = {B} => gamepad = A
                /\ navGamepads = {A, B} => gamepad = A

C4_Witness ==
    /\ gamepadOverride = Undefined /\ call.op \in Notifications /\ call.alive
    /\ connectedGamepads = {1, 2} /\ navGamepads = {2} /\ gamepad = 1

\* C5: after construction and after each handled notification, a dynamic
\* binding's gamepad is the lowest navigation gamepad if there are several of
\* them, else the lowest connected gamepad, and undefined if there is none or
\* if the one chosen is not connected.
C5_ActiveIsSelection ==
    (gamepadOverride = Undefined /\ ReEvaluated) =>
        LET pool == IF Cardinality(navGamepads) >= 2 THEN navGamepads
                    ELSE connectedGamepads
        IN  \/ pool = {} /\ gamepad = Undefined
            \/ \E c \in pool :
                   /\ \A o \in pool : c <= o
                   /\ c \in connectedGamepads => gamepad = c
                   /\ c \notin connectedGamepads => gamepad = Undefined

C5_Witness ==
    /\ gamepadOverride = Undefined /\ call.op = "GamepadConnected" /\ call.alive
    /\ navGamepads \subseteq connectedGamepads /\ Cardinality(connectedGamepads) >= 2
    /\ call.prev # Undefined /\ gamepad = call.slot /\ gamepad # call.prev

C7_SlotToSlot ==
    (/\ gamepadOverride = Undefined /\ call.prev # Undefined /\ gamepad # Undefined
     /\ call.prev # gamepad)
        => fired = << <<"gamepadChanged", gamepad>> >>

C7_Witness ==
    /\ gamepadOverride = Undefined /\ call.op = "GamepadDisconnected"
    /\ call.prev = 1 /\ gamepad = 2 /\ call.slot = 1

C9_OtherSlotsIgnored ==
    /\ [][(gamepadOverride # Undefined /\ call'.op \in Notifications
            /\ call'.slot # gamepadOverride)
          => (/\ UNCHANGED <<gamepad, state, gamepadTrove, threads, setMotorIds>>
              /\ fired' = <<>>)]_vars
    /\ [](gamepadOverride # Undefined => gamepad \in {Undefined, gamepadOverride})

C9_Witness ==
    /\ gamepadOverride # Undefined /\ call.op = "GamepadDisconnected" /\ call.alive
    /\ call.slot # gamepadOverride /\ gamepad = gamepadOverride
    /\ threads # EmptyBag

\* C10: the first destroy() commands intensity 0 exactly once for each
\* supported motor of the active gamepad and sends nothing else; a second
\* destroy() sends no command, fires nothing and changes no state.
C10_DestroyTwice ==
    /\ []((call.op = "destroy" /\ call.alive) =>
            /\ \A i \in DOMAIN haptic : haptic[i][1] = gamepad /\ haptic[i][3] = 0
            /\ \A m \in Motors : Commands(haptic, m) = IF m \in motorSupport THEN 1 ELSE 0)
    /\ [][(call'.op = "destroy" /\ trove = <<>>)
          => (/\ UNCHANGED <<hostVars, gamepadOverride, gamepad, state, trove,
                             gamepadTrove, threads, setMotorIds>>
              /\ haptic' = <<>> /\ fired' = <<>>)]_vars

C10_Witness ==
    /\ call.op = "destroy" /\ ~call.alive /\ gamepad # Undefined /\ motorSupport # {}

\* C11 as stated: once destroy() has returned, a connect or disconnect
\* notification changes nothing of the binding and fires nothing, an input
\* event fires nothing, and every destroy() leaves no thread of a pulse scheduled.
C11_Original ==
    /\ [][(trove = <<>> /\ call'.op \in Notifications \cup {"InputBegan", "InputEnded"})
          => (UNCHANGED <<gamepad, state, gamepadTrove, threads, setMotorIds>> /\ fired' = <<>>)]_vars
    /\ [][call'.op = "destroy" => threads' = EmptyBag]_vars

\* C11: once destroy() has returned, a connect or disconnect notification
\* changes nothing of the binding and fires nothing, an input event fires
\* nothing, and the first destroy() leaves no thread of a pulse scheduled (a
\* pulse started on the destroyed binding is not cancelled by a later destroy()).
C11_NothingRunsAfterDestroy ==
    /\ [][(trove = <<>> /\ call'.op \in Notifications \cup {"InputBegan", "InputEnded"})
          => (/\ UNCHANGED <<gamepad, state, gamepadTrove, threads, setMotorIds>>
              /\ fired' = <<>> /\ haptic' = <<>>)]_vars
    /\ [][(call'.op = "destroy" /\ trove # <<>>)
          => (trove' = <<>> /\ gamepadTrove' = <<>> /\ threads' = EmptyBag)]_vars

C11_Witness ==
    /\ call.op = "InputBegan" /\ ~call.alive /\ call.slot = gamepad /\ fired = <<>>
    /\ call.slot \in connectedGamepads

\* ------------------------------------- properties of the preferred input
\* how many entries of the array are x
CountOf(array, x) == Cardinality({i \in DOMAIN array : array[i] = x})

\* how many callbacks of the log went to the observer
DeliveredTo(log, observer) == Cardinality({i \in DOMAIN log : log[i][1] = observer})

\* a step that classified an input type and changed the preferred type
Round ==
    /\ preferCall'.op = "LastInputTypeChanged"
    /\ currentPreferredInputType' # currentPreferredInputType

\* C12: in a round where an observer calls its own unsubscribe function
\* from its callback, every other observer registered at the start of the
\* round is given the new preferred type once per registration, and a
\* callback that is no longer in observers is given nothing.
C12_UnsubscribeInCallback ==
    [][(Round /\ \E u \in Unsubscribing : CountOf(observers, u) > 0)
       => \A observer \in Callbacks :
            /\ observer \notin Unsubscribing
               => /\ DeliveredTo(delivered', observer) = CountOf(observers, observer)
                  /\ \A i \in DOMAIN delivered' : delivered'[i][2] = currentPreferredInputType'
            /\ CountOf(observers, observer) = 0 => DeliveredTo(delivered', observer) = 0]_vars

\* C13: an observer registered while the preferred type is m is given exactly
\* one immediate callback, with m, and a classification that yields the
\* current preferred type again runs no callback: the next callback comes
\* with a change.
C13_OneImmediateCallback ==
    [][/\ (preferCall'.op = "observePreferredInput" /\ currentPreferredInputType \in InputTypes)
          => delivered' = << <<preferCall'.observer, currentPreferredInputType>> >>
       /\ (preferCall'.op = "LastInputTypeChanged"
           /\ currentPreferredInputType' = currentPreferredInputType)
          => delivered' = <<>>]_vars

C13_Witness ==
    /\ preferCall.op = "LastInputTypeChanged" /\ preferCall.listening
    /\ preferCall.inputType = "Touch" /\ currentPreferredInputType = "Touch"
    /\ observers # <<>> /\ delivered = <<>>

\* C14: a classification that changes the preferred type to m' runs every
\* observer in the array exactly once with m', the stored type being m'; one
\* that yields the current type runs no observer and changes nothing.
C14_FanOutToEveryObserver ==
    [][(preferCall'.op = "LastInputTypeChanged" /\ listening)
       => IF currentPreferredInputType' # currentPreferredInputType
          THEN /\ Len(delivered') = Len(observers)
               /\ \A observer \in Callbacks :
                    DeliveredTo(delivered', observer) = CountOf(observers, observer)
               /\ \A i \in DOMAIN delivered' : delivered'[i][2] = currentPreferredInputType'
          ELSE /\ delivered' = <<>>
               /\ UNCHANGED <<observers, handles>>]_vars

\* C15: the array holds one entry per observePreferredInput call whose
\* returned function has not been called.
C15_OneEntryPerLiveHandle ==
    \A observer \in Callbacks :
        CountOf(observers, observer)
            = Cardinality({i \in DOMAIN handles :
                             handles[i].observer = observer /\ ~handles[i].invoked})

\* the device classes of the specification
MouseClasses == {"MouseButton1", "MouseMovement", "MouseWheel"}
GamepadClasses == {"Gamepad1", "Gamepad8"}
Recognized == {"Touch", "Keyboard"} \cup MouseClasses \cup GamepadClasses

\* C16: after LastInputTypeChanged is handled for a class c, the preferred
\* type is Touch for touch, MouseKeyboard for keyboard or a mouse class,
\* Gamepad for a gamepad class.
C16_ClassDecidesPreferred ==
    (preferCall.op = "LastInputTypeChanged" /\ preferCall.listening)
    => /\ preferCall.inputType = "Touch" => currentPreferredInputType = "Touch"
       /\ preferCall.inputType \in {"Keyboard"} \cup MouseClasses
          => currentPreferredInputType = "MouseKeyboard"
       /\ preferCall.inputType \in GamepadClasses => currentPreferredInputType = "Gamepad"

\* the preferred type the specification gives for the five host flags
FromFlags(f) ==
    CASE f.IsTenFootInterface -> "Gamepad"
      [] ~f.IsTenFootInterface /\ f.KeyboardEnabled /\ f.MouseEnabled -> "MouseKeyboard"
      [] ~f.IsTenFootInterface /\ ~(f.KeyboardEnabled /\ f.MouseEnabled) /\ f.TouchEnabled
            -> "Touch"
      [] ~f.IsTenFootInterface /\ ~(f.KeyboardEnabled /\ f.MouseEnabled) /\ ~f.TouchEnabled
            /\ f.GamepadEnabled -> "Gamepad"
      [] OTHER -> "MouseKeyboard"

\* C17: in prefer.ts and part_000, a classification of an unrecognized class
\* while nothing was ever set (the startup classification, and any
\* classification that consults the host) sets the preferred type the five
\* flags give.
C17_InitialFromFlags ==
    variant \in {"prefer.ts", "part_000"}
    => /\ (preferCall.op = "new" /\ preferCall.inputType \notin Recognized)
          => (preferCall.consulted /\ currentPreferredInputType = FromFlags(preferCall.flags))
       /\ preferCall.consulted => currentPreferredInputType = FromFlags(preferCall.flags)

C17_Witness ==
    /\ variant = "prefer.ts" /\ preferCall.op = "new" /\ preferCall.inputType = "None"
    /\ preferCall.flags = [IsTenFootInterface |-> FALSE, KeyboardEnabled |-> TRUE,
                           MouseEnabled |-> FALSE, TouchEnabled |-> FALSE,
                           GamepadEnabled |-> TRUE]
    /\ currentPreferredInputType = "Gamepad"

\* C18: LastInputTypeChanged with an unrecognized class while a preferred
\* type is set leaves it and the observers as they are, does not consult
\* the host's flags and runs no callback.
C18_UnrecognizedIgnored ==
    [][(/\ preferCall'.op = "LastInputTypeChanged" /\ listening
        /\ preferCall'.inputType \notin Recognized
        /\ currentPreferredInputType # Unset)
       => (/\ UNCHANGED <<currentPreferredInputType, observers, handles>>
           /\ ~preferCall'.consulted
           /\ delivered' = <<>>)]_vars

C18_Witness ==
    /\ preferCall.op = "LastInputTypeChanged" /\ preferCall.listening
    /\ preferCall.inputType = "Focus" /\ ~preferCall.consulted
    /\ currentPreferredInputType = "Gamepad"
    /\ observers # <<>> /\ delivered = <<>>

\* C19: once the startup classification is done the preferred type is one of
\* MouseKeyboard, Touch, Gamepad: getPreferredInput never returns the unset
\* value and no callback is given it.
C19_NeverUnsetAfterStartup ==
    /\ currentPreferredInputType \in InputTypes
    /\ \A i \in DOMAIN delivered : delivered[i][2] \in InputTypes
    /\ preferCall.op = "getPreferredInput" => preferCall.ret \in InputTypes

\* C20: once Prefer.destroy() has returned, LastInputTypeChanged changes
\* nothing and runs no callback, and a further destroy() changes nothing.
C20_PreferDestroyed ==
    [][variant = "prefer.ts"
       => /\ (preferTrove = <<>> /\ preferCall'.op = "LastInputTypeChanged")
             => (UNCHANGED <<currentPreferredInputType, observers, handles>>
                 /\ delivered' = <<>>)
          /\ preferCall'.op = "destroy" => (~listening' /\ preferTrove' = <<>>)
          /\ (preferTrove = <<>> /\ preferCall'.op = "destroy")
             => (UNCHANGED <<currentPreferredInputType, observers, handles, listening,
                             preferTrove>>
                 /\ delivered' = <<>>)]_vars

C20_Witness ==
    /\ variant = "prefer.ts" /\ preferTrove = <<>>
    /\ preferCall.op = "LastInputTypeChanged" /\ ~preferCall.listening
    /\ preferCall.inputType = "Touch" /\ currentPreferredInputType = "Gamepad"
    /\ observers # <<>> /\ delivered = <<>>

\* C21: a callback that throws, in a fan-out round or in its immediate call
\* by observePreferredInput, leaves the new preferred type stored, does not
\* keep any other observer of the round from being called, and throws nothing
\* into the classification or into the caller of observePreferredInput.
C21_FailureIsolated ==
    [][/\ ~preferCall'.error
       /\ (Round /\ \E i \in DOMAIN delivered' : delivered'[i][1] \in Throwing)
          => /\ \A observer \in Callbacks :
                  DeliveredTo(delivered', observer) = CountOf(observers, observer)
             /\ \A i \in DOMAIN delivered' : delivered'[i][2] = currentPreferredInputType'
       /\ (preferCall'.op = "observePreferredInput" /\ preferCall'.observer \in Throwing)
          => /\ Len(handles') = Len(handles) + 1
             /\ delivered' = << <<preferCall'.observer, currentPreferredInputType>> >>]_vars

\* C22: setMotor called while no gamepad is set returns -1, issues no command
\* and leaves setMotorIds as it is; a pulseMotor called while no gamepad is
\* set issues no command, neither at the call nor when its thread runs.
C22_UnsetMotorCalls ==
    [][/\ (call'.op = "setMotor" /\ gamepad = Undefined)
          => (call'.ret = Some(-1) /\ haptic' = <<>> /\ setMotorIds' = setMotorIds)
       /\ (call'.op = "pulseMotor" /\ gamepad = Undefined)
          => (haptic' = <<>> /\ setMotorIds' = setMotorIds)
       /\ (call'.op = "pulseThread" /\ call'.slot = Undefined)
          => (haptic' = <<>> /\ setMotorIds' = setMotorIds)]_vars

C22_Witness ==
    /\ call.op = "pulseThread" /\ call.slot = Undefined /\ call.id = Some(-1)
    /\ call.alive /\ haptic = <<>>

\* C23: this.state holds only samples of the snapshot taken for the gamepad
\* that is this.gamepad, none from a gamepad that was active before, and is
\* empty whenever no gamepad is set; a change of this.gamepad leaves exactly
\* the snapshot of the new gamepad.
C23_StateOfActiveGamepadOnly ==
    /\ [](/\ \A sample \in state : sample[2] = gamepad
          /\ gamepad = Undefined => state = {})
    /\ [][gamepad' # gamepad
          => state' = IF gamepad' = Undefined THEN {} ELSE GetGamepadState(gamepad')]_vars

C23_Witness ==
    /\ call.op = "GamepadDisconnected" /\ call.prev # Undefined /\ gamepad # Undefined
    /\ call.prev # gamepad
    /\ state # {} /\ \A sample \in state : sample[2] = gamepad

\* the thresholds a query is tried with: left out, or a multiple of 1/GridDen in [-1, 2]
QueryThresholds == {Nil} \cup {Some(<<n, GridDen>>) : n \in (-GridDen)..(2 * GridDen)}

\* the positions a held sample is tried with
Positions == {<<-1, 1>>, One}

\* C24: while no gamepad is set, getGamepadType returns undefined,
\* isConnected, isButtonDown, isMotorSupported and isVibrationSupported return
\* false whatever the host would answer, and getThumbstick and getTrigger
\* return zero for every element and threshold.
C24_UnsetQueriesNeutral ==
    gamepad = Undefined
    => /\ GetGamepadType(Binding) = Undefined
       /\ ~IsConnected(Binding, Host)
       /\ \A button \in Buttons, down \in SUBSET Buttons : ~IsButtonDown(Binding, down, button)
       /\ \A motor \in Motors, support \in SUBSET Motors :
             ~IsMotorSupported(Binding, [Host EXCEPT !.support = support], motor)
       /\ \A supported \in BOOLEAN : ~IsVibrationSupported(Binding, supported)
       /\ \A element \in AxisKeys, t \in QueryThresholds, x \in Positions :
             LET vector == GetThumbstick(Binding, element, t, x, x)
             IN  /\ REq(vector[1], Zero) /\ REq(vector[2], Zero)
                 /\ REq(GetTrigger(Binding, element, t, x), Zero)

C24_Witness ==
    /\ gamepad = Undefined /\ call.op = "GamepadDisconnected" /\ call.prev # Undefined
    /\ call.alive /\ state = {} /\ connectedGamepads = {}

\* C25: on the grid, applyDeadzone(v, t) is 0 when |v| < t and
\* sign(v) * (|v| - t) / (1 - t) otherwise, its magnitude does not decrease
\* as |v| grows from t, and it is sign(v) at |v| = 1.
C25_DeadzoneRemap ==
    remapped # Nil
    => LET r == remapped[1]
           v == inValue
           t == inThreshold
       IN  /\ RLess(Abs(v), t) => REq(r, Zero)
           /\ ~RLess(Abs(v), t)
              => REq(RMul(r, RSub(One, t)), RMul(Sign(v), RSub(Abs(v), t)))
           /\ \A w \in GridValues :
                 (~RLess(Abs(v), t) /\ ~RLess(Abs(w), Abs(v)))
                 => ~RLess(Abs(ApplyDeadzone(w, t)), Abs(r))
           /\ REq(Abs(v), One) => REq(r, Sign(v))

C25_Witness ==
    /\ remapped # Nil /\ inValue = <<-GridDen, GridDen>> /\ inThreshold[1] > 0
    /\ REq(remapped[1], <<-1, 1>>)

\* C26: every command sent to HapticService carries an intensity from 0 to 1
\* (0 to 10 tenths) and the gamepad that is this.gamepad when it is sent;
\* setMotor(M, x) under a gamepad sends exactly min(1, max(0, x)) for M.
C26_CommandsClamped ==
    [][/\ \A i \in DOMAIN haptic' :
            /\ haptic'[i][3] >= 0 /\ haptic'[i][3] <= 10
            /\ haptic'[i][1] = gamepad /\ haptic'[i][1] # Undefined
       /\ (call'.op = "setMotor" /\ gamepad # Undefined)
          => haptic' = << <<gamepad, call'.motor,
                            IF call'.x < 0 THEN 0 ELSE IF call'.x > 10 THEN 10 ELSE call'.x>> >>]_vars

C26_Witness ==
    /\ call.op = "setMotor" /\ call.x = 15 /\ gamepad # Undefined
    /\ haptic = << <<gamepad, call.motor, 10>> >>

Subscriptions(signal) ==
    Cardinality({i \in DOMAIN gamepadTrove : gamepadTrove[i][1] = signal})

\* the signal an input event fires
ButtonSignal(op) == IF op = "InputBegan" THEN "buttonDown" ELSE "buttonUp"

\* C29 as stated: an InputBegan (InputEnded) event fires buttonDown
\* (buttonUp) once, with its KeyCode and processed flag, exactly when its
\* UserInputType is this.gamepad, and otherwise nothing; the binding holds at
\* most one InputBegan and one InputEnded connection.
C29_Original ==
    /\ [](Subscriptions("InputBegan") <= 1 /\ Subscriptions("InputEnded") <= 1)
    /\ [][call'.op \in {"InputBegan", "InputEnded"}
          => fired' = IF call'.slot = gamepad
                      THEN << <<ButtonSignal(call'.op), call'.key, call'.processed>> >>
                      ELSE <<>>]_vars

\* C29: for a binding that has not been destroyed, an InputBegan (InputEnded)
\* event fires buttonDown (buttonUp) once, with its KeyCode and processed
\* flag, exactly when its UserInputType is this.gamepad, and otherwise
\* nothing; a destroyed binding fires nothing; the binding holds at most one
\* InputBegan and one InputEnded connection, both for this.gamepad.
C29_ButtonEventsOfActiveGamepad ==
    /\ [](/\ Subscriptions("InputBegan") <= 1 /\ Subscriptions("InputEnded") <= 1
          /\ \A i \in DOMAIN gamepadTrove :
                gamepadTrove[i][1] \in {"InputBegan", "InputEnded"}
                => gamepadTrove[i][2] = gamepad)
    /\ [][call'.op \in {"InputBegan", "InputEnded"}
          => fired' = IF call'.slot = gamepad /\ trove # <<>>
                      THEN << <<ButtonSignal(call'.op), call'.key, call'.processed>> >>
                      ELSE <<>>]_vars

C29_Witness ==
    /\ call.op = "InputBegan" /\ call.alive /\ call.processed
    /\ call.slot = gamepad /\ gamepadOverride = Undefined
    /\ fired = << <<"buttonDown", call.key, TRUE>> >>

\* how many of the signals fired are gamepadChanged
ChangesFired(log) == Cardinality({i \in DOMAIN log : log[i][1] = "gamepadChanged"})

\* C30: an operation that leaves this.gamepad as it was fires none of
\* connected, disconnected, gamepadChanged; one that changes it fires
\* gamepadChanged once, with the new gamepad.  The payload of a
\* gamepadChanged is thus this.gamepad until the next one, which carries
\* another value.
C30_FiresOnlyOnChange ==
    [][/\ gamepad' = gamepad
          => \A i \in DOMAIN fired' :
                fired'[i][1] \notin {"connected", "disconnected", "gamepadChanged"}
       /\ gamepad' # gamepad
          => /\ ChangesFired(fired') = 1
             /\ \E i \in DOMAIN fired' : fired'[i] = <<"gamepadChanged", gamepad'>>]_vars

C30_Witness ==
    /\ call.op = "GamepadConnected" /\ call.alive /\ gamepadOverride = Undefined
    /\ call.prev = gamepad /\ gamepad # Undefined /\ call.slot # gamepad
    /\ call.slot \in connectedGamepads /\ fired = <<>>

\* ---------------------------------------------- properties of the keyboard
\* the Keyboard object once the step is taken
KeyboardObjectAfter == [keysDown |-> keysDown', trove |-> keyboardTrove', fired |-> keyFired']

\* C27 as stated: in every state isKeyDown(k) implies that an unprocessed
\* InputBegan of the keyboard for k occurred with no InputEnded for k since;
\* a processed press never makes isKeyDown(k) true; after an InputEnded for k,
\* processed or not, isKeyDown(k) is false.
C27_Original ==
    /\ [](\A k \in Keys : IsKeyDown(KeyboardObject, k) => k \in heldUnprocessed)
    /\ [](keyboardCall.op = "isKeyDown" /\ keyboardCall.ret
          => keyboardCall.key \in heldUnprocessed)
    /\ [][(keyboardCall'.op = "InputBegan" /\ keyboardCall'.inputType = "Keyboard"
           /\ keyboardCall'.processed /\ ~IsKeyDown(KeyboardObject, keyboardCall'.key))
          => ~IsKeyDown(KeyboardObjectAfter, keyboardCall'.key)]_vars
    /\ [][(keyboardCall'.op = "InputEnded" /\ keyboardCall'.inputType = "Keyboard")
          => ~IsKeyDown(KeyboardObjectAfter, keyboardCall'.key)]_vars

\* C27: for a keyboard that has not been destroyed, isKeyDown(k) implies that
\* an unprocessed InputBegan of the keyboard for k occurred with no InputEnded
\* for k since, and after an InputEnded for k, processed or not, isKeyDown(k)
\* is false; a processed press never makes isKeyDown(k) true.
C27_DownOnlyIfPressedUnprocessed ==
    /\ [](keyboardTrove # <<>>
          => \A k \in Keys : IsKeyDown(KeyboardObject, k) => k \in heldUnprocessed)
    /\ [](keyboardCall.op = "isKeyDown" /\ keyboardCall.alive /\ keyboardCall.ret
          => keyboardCall.key \in heldUnprocessed)
    /\ [][(keyboardCall'.op = "InputBegan" /\ keyboardCall'.inputType = "Keyboard"
           /\ keyboardCall'.processed /\ ~IsKeyDown(KeyboardObject, keyboardCall'.key))
          => ~IsKeyDown(KeyboardObjectAfter, keyboardCall'.key)]_vars
    /\ [][(keyboardCall'.op = "InputEnded" /\ keyboardCall'.inputType = "Keyboard"
           /\ keyboardCall'.alive)
          => ~IsKeyDown(KeyboardObjectAfter, keyboardCall'.key)]_vars

C27_Witness ==
    /\ keyboardCall.op = "InputBegan" /\ keyboardCall.inputType = "Keyboard"
    /\ keyboardCall.processed /\ keyboardCall.alive
    /\ ~IsKeyDown(KeyboardObject, keyboardCall.key)
    /\ \E k \in Keys : IsKeyDown(KeyboardObject, k)
    /\ keyFired = << <<"keyDown", keyboardCall.key, TRUE>> >>

\* ------------------------------------- properties of the gamepad's history
\* the last link signal followed by the link signals of a log, by name
LinkedThen(last, log) == <<last>> \o [i \in DOMAIN Links(log) |-> Links(log)[i][1]]

\* no signal twice in a row, and connected the first
Alternates(seq) ==
    \A i \in 1..(Len(seq) - 1) :
        /\ seq[i] # seq[i + 1]
        /\ seq[i] = "" => seq[i + 1] = "connected"

\* C31: the connected and disconnected signals fired by the constructor and
\* by the operations that follow alternate, connected being the first: each
\* one fired differs from the one fired last before it.
C31_LinksAlternate ==
    /\ Alternates(LinkedThen("", fired))
    /\ [][Alternates(LinkedThen(linked, fired'))]_vars

C31_Witness ==
    /\ call.op \in Notifications /\ call.alive /\ gamepadOverride = Undefined
    /\ call.prev # Undefined /\ gamepad # Undefined /\ gamepad # call.prev
    /\ linked = "connected" /\ Links(fired) = <<>>

\* C32: all threads scheduled were scheduled under this.gamepad; when
\* this.gamepad changes away from a gamepad A, intensity 0 is sent to A for
\* every motor the host reports supported, no command goes to another
\* gamepad, and no thread is left scheduled; a thread that runs was scheduled
\* under this.gamepad and sends nothing to another gamepad.
C32_RebindStopsAndCancels ==
    /\ [](\A t \in BagToSet(threads) : t.gamepad = gamepad)
    /\ [][(gamepad' # gamepad /\ gamepad # Undefined)
          => /\ \A m \in motorSupport :
                    \E i \in DOMAIN haptic' : haptic'[i] = <<gamepad, m, 0>>
             /\ \A i \in DOMAIN haptic' : haptic'[i][1] = gamepad
             /\ threads' = EmptyBag]_vars
    /\ [][call'.op = "pulseThread"
          => /\ call'.slot = gamepad
             /\ \A i \in DOMAIN haptic' : haptic'[i][1] = call'.slot]_vars

C32_Witness ==
    /\ call.op \in Notifications /\ call.alive
    /\ call.prev # Undefined /\ gamepad # Undefined /\ gamepad # call.prev
    /\ call.pending > 0 /\ threads = EmptyBag
    /\ haptic = << <<call.prev, "Large", 0>>, <<call.prev, "Small", 0>> >>

\* C33 as stated: in every state after construction, this.gamepad being set
\* implies that the host reports it connected, and isConnected() is true
\* exactly when getGamepadType() is not undefined.
C33_Original ==
    /\ gamepad # Undefined => GetGamepadConnected(Host, gamepad)
    /\ IsConnected(Binding, Host) <=> GetGamepadType(Binding) # Undefined

\* C33: in every state of a binding that has not been destroyed,
\* this.gamepad being set implies that the host reports it connected, and
\* isConnected() is true exactly when getGamepadType() is not undefined.
C33_ActiveIsConnected ==
    trove # <<>>
    => /\ gamepad # Undefined => GetGamepadConnected(Host, gamepad)
       /\ IsConnected(Binding, Host) <=> GetGamepadType(Binding) # Undefined

C33_Witness ==
    /\ call.op = "GamepadDisconnected" /\ call.alive /\ trove # <<>>
    /\ call.prev = call.slot /\ gamepad # Undefined /\ gamepad # call.prev
    /\ call.prev \notin connectedGamepads
    /\ IsConnected(Binding, Host)

====
